---- MODULE Spec2Model ----
(***************************************************************************)
(* Model of pambox's speech-intelligibility experiment runner              *)
(* (pambox/speech/experiment.py, pambox/general.py).                       *)
(*                                                                         *)
(* Spec     : AdaptiveExperiment.run, the adaptive staircase, one action   *)
(*            per loop iteration, followed by append_results.              *)
(* FairSpec : the same machine with weak fairness on its steps (a Python   *)
(*            loop that can take its next iteration does take it).         *)
(* RunSpec  : Experiment.run called twice with the same arguments, locally *)
(*            (_single_run) or on an IPython cluster (_parallel_run).      *)
(*                                                                         *)
(* SNRs, levels and step sizes are integers (dB).  An arithmetic mean is   *)
(* kept as the exact fraction num/den.                                     *)
(***************************************************************************)
EXTENDS Integers, Sequences, FiniteSets, TLC

VARIABLES
    self,               \* the AdaptiveExperiment object (its attributes)
    np_random,          \* state of numpy's global random generator
    pc,                 \* position in run: "start", "for", "while", "done"
    targets,            \* material.load_files(n)
    ii,                 \* index of the current group in the product
    target, masker,     \* the loop's signal variables
    test_reversals, total_reversals, snr, last_reversal_sign,
    i_step, all_res,    \* the staircase state
    res,                \* last model output
    srt,                \* last derived SRT (a fraction)
    df,                 \* the result table (sequence of rows)
    \* two consecutive calls of Experiment.run on one object and one cluster
    xp,                 \* the Experiment object and the arguments of run
    rng,                \* random generator state of each process
    run_no,             \* which of the two calls is executing (1, 2)
    rpc,                \* position in the call
    rtargets,           \* material.load_files(n)
    i_cond,             \* index of the next condition of _single_run
    partial,            \* _parallel_run: the table returned for each condition
    finished,           \* _parallel_run: the conditions evaluated so far
    dfs,                \* the table each call returned
    \* one call of Experiment.run that writes its table
    wxp,                \* the Experiment object and the arguments of run
    wpc,                \* position in run and _write_results
    wdf,                \* the table run built
    io,                 \* the file-system operations made, in order
    files,              \* the CSV file at each path (NoFile if none)
    exc,                \* the exception in flight ("none" if none)
    logged,             \* number of log.error calls
    wret,               \* what run returned to its caller
    \* one call of a function of general.py or of pred_to_pc
    fn,                 \* the function called
    fn_in,              \* its arguments
    fn_out              \* its outcome (NoOutcome before the call)

stairVars == <<self, np_random, pc, targets, ii, target, masker,
               test_reversals, total_reversals, snr, last_reversal_sign,
               i_step, all_res, res, srt, df>>

runVars == <<xp, rng, run_no, rpc, rtargets, i_cond, partial, finished,
             dfs>>

writeVars == <<wxp, wpc, wdf, io, files, exc, logged, wret>>

utilVars == <<fn, fn_in, fn_out>>

vars == <<stairVars, runVars, writeVars, utilVars>>

-----------------------------------------------------------------------------
(* Bounds of the model *)

\* largest n_test_reversals tried
MaxTestReversals == 2
\* largest number of target sentences loaded
MaxTargets == 2
MaxPoints == 3          \* points of a psychometric curve given to int2srt
MaxSamples == 3         \* samples of a signal given to general.py
MaxRows == 2            \* rows of a table given to pred_to_pc
\* the staircase is followed while |snr| <= MaxSnr
MaxSnr == 12
\* number of engines of the IPython cluster
NumEngines == 2

-----------------------------------------------------------------------------
(* Small helpers *)

Min(a, b) == IF a < b THEN a ELSE b

Abs(a) == IF a < 0 THEN -a ELSE a

RECURSIVE SumSeq(_)
SumSeq(s) == IF s = <<>> THEN 0 ELSE Head(s) + SumSeq(Tail(s))

RECURSIVE SetToSeq(_)
SetToSeq(S) == IF S = {} THEN <<>>
               ELSE LET x == CHOOSE y \in S : TRUE
                    IN <<x>> \o SetToSeq(S \ {x})

\* Python's s[-n:] for n >= 0 (s[-0:] is the whole list)
LastN(s, n) == IF n = 0 \/ n >= Len(s) THEN s
               ELSE SubSeq(s, Len(s) - n + 1, Len(s))

\* np.mean of a list, as an exact fraction
Mean(xs) == [num |-> SumSeq(xs), den |-> Len(xs)]

NoValue == [num |-> 0, den |-> 0]

-----------------------------------------------------------------------------
(* numpy's global random generator: a small full-period congruential       *)
(* generator stands for it.                                                *)

RngStates == 0..3

\* np.random.seed(seed)
RngSeed(seed) == seed % 4

\* one draw: the value drawn, and the generator's next state
RngDraw(s) == [value |-> s, next |-> (5 * s + 3) % 4]

-----------------------------------------------------------------------------
(* Signals.  A signal is kept as what the runner does to it:               *)
(*   id    sentence number it comes from                                   *)
(*   len   number of samples                                               *)
(*   noise value drawn from the random generator (0 for speech)            *)
(*   ndist number of times the distortion was applied to it                *)
(*   nlvl  number of times its level was set                               *)
(*   lvl   its level in dB SPL                                             *)

\* material.load_files(n): the n target sentences
LoadFiles(n) == [i \in 1..n |->
                   [id |-> i - 1, len |-> 2, noise |-> 0,
                    ndist |-> 0, nlvl |-> 0, lvl |-> 60]]

\* material.ssn(target): speech-shaped noise of the target's length
Ssn(tgt, draw) == [id |-> tgt.id, len |-> tgt.len, noise |-> draw,
                   ndist |-> 0, nlvl |-> 0, lvl |-> 60]

\* general.make_same_length on the lengths of a and b
make_same_length(a, b, extend_first) ==
    IF a.len < b.len
    THEN IF extend_first
         THEN <<[a EXCEPT !.len = b.len], b>>
         ELSE <<a, [b EXCEPT !.len = a.len]>>
    ELSE <<a, [b EXCEPT !.len = a.len]>>

\* general.setdbspl: the signal scaled to level lvl
setdbspl(x, lvl) == [x EXCEPT !.lvl = lvl, !.nlvl = @ + 1]

\* Experiment.adjust_levels
adjust_levels(slf, tgt, msk, s) ==
    LET target_level == IF slf.fixed_target THEN slf.fixed_level
                        ELSE slf.fixed_level + s
        masker_level == IF slf.fixed_target THEN slf.fixed_level - s
                        ELSE slf.fixed_level
    IN <<setdbspl(tgt, target_level), setdbspl(msk, masker_level)>>

\* distortion parameters: None, a tuple, or a dict
ParamsNone == [kind |-> "none", args |-> <<>>, kwargs |-> {}]
ParamsTuple == [kind |-> "tuple", args |-> <<1>>, kwargs |-> {}]
ParamsDict == [kind |-> "dict", args |-> <<>>, kwargs |-> {<<"tdist", 1>>}]

\* Python truth value of params
Truthy(params) == params.args # <<>> \/ params.kwargs # {}

\* self.distortion(target, masker, ...): an external callable
distortion(tgt, msk, params) ==
    <<[tgt EXCEPT !.ndist = @ + 1], [msk EXCEPT !.ndist = @ + 1]>>

\* Experiment.preprocessing: <<target, mix, masker>>
preprocessing(slf, tgt, msk, s, params) ==
    LET p1 == IF tgt.len # msk.len THEN make_same_length(tgt, msk, FALSE)
              ELSE <<tgt, msk>>
        p2 == IF slf.adjust_levels_bef_proc
              THEN adjust_levels(slf, p1[1], p1[2], s) ELSE p1
        p3 == IF Truthy(params) THEN distortion(p2[1], p2[2], params) ELSE p2
        p4 == IF ~slf.adjust_levels_bef_proc
              THEN adjust_levels(slf, p3[1], p3[2], s) ELSE p3
    IN <<p4[1], [t |-> p4[1], m |-> p4[2]], p4[2]>>

-----------------------------------------------------------------------------
(* Intelligibility models (external).  A model sees only the signals; the  *)
(* SNR it sees is the difference of the levels of target and masker.  The  *)
(* second output, "aux", depends on the noise realisation of the masker.   *)
(*   linear : pred = SNR + offset (monotonic in SNR)                       *)
(*   script : the k-th call of a staircase answers script[k], cyclically   *)
(*            (any model that is not a function of the SNR)                *)
(*   sticky : as script, but from the last entry on the answer stays       *)
(* Further kinds differ in the number of named outputs: single (1),        *)
(* triple (3) and empty (0); their "snr_env" is that of a linear model.    *)

Scripts == [1..3 -> {0, 1}]

LinearModels == {[name |-> "Linear", kind |-> "linear", offset |-> o,
                  script |-> <<0, 0, 0>>] : o \in {0, 1, 2}}

ScriptModels == {[name |-> "Script", kind |-> "script", offset |-> 0,
                  script |-> s] : s \in Scripts}

StickyModels == {[name |-> "Sticky", kind |-> "sticky", offset |-> 0,
                  script |-> s] : s \in {<<1, 0, 0>>, <<1, 1, 0>>}}

Models == LinearModels \cup ScriptModels \cup StickyModels

\* models with one, three and no named outputs
SingleModel == [name |-> "Single", kind |-> "single", offset |-> 0,
                script |-> <<0, 0, 0>>]
TripleModel == [name |-> "Triple", kind |-> "triple", offset |-> 0,
                script |-> <<0, 0, 0>>]
EmptyModel == [name |-> "Empty", kind |-> "empty", offset |-> 0,
               script |-> <<0, 0, 0>>]

\* the names of the entries of a model's res['p']
OutputNames(mdl) ==
    CASE mdl.kind = "single" -> {"snr_env"}
      [] mdl.kind = "triple" -> {"snr_env", "aux", "aux2"}
      [] mdl.kind = "empty" -> {}
      [] OTHER -> {"snr_env", "aux"}

SeenSnr(tgt, msk) == tgt.lvl - msk.lvl

\* model.predict(target, mix, masker) at its ncalls-th call (from 0)
prediction(mdl, tgt, mix, msk, ncalls) ==
    LET v == CASE mdl.kind = "script" ->
                    mdl.script[(ncalls % Len(mdl.script)) + 1]
               [] mdl.kind = "sticky" ->
                    mdl.script[Min(ncalls + 1, Len(mdl.script))]
               [] OTHER -> SeenSnr(tgt, msk) + mdl.offset
    IN [p |-> [name \in OutputNames(mdl) |->
                 CASE name = "snr_env" -> v
                   [] name = "aux" -> msk.noise
                   [] OTHER -> SeenSnr(tgt, msk)]]

\* the SNR at which a linear model's output reaches the threshold
Crossing(mdl, thr) == thr - mdl.offset

-----------------------------------------------------------------------------
(* Experiment.append_results *)

\* the dict d before the output loop
RowBase(slf, r, mdl, s, i_target, params) ==
    LET d == [k \in {"SNR", "Model", "Sentence number", "Full Prediction",
                     "Material"} |->
                CASE k = "SNR" -> s
                  [] k = "Model" -> mdl.name
                  [] k = "Sentence number" -> i_target
                  [] k = "Full Prediction" -> r
                  [] k = "Material" -> slf.material]
    IN IF params.kind = "dict"
       THEN LET keys == {kv[1] : kv \in params.kwargs}
            IN [k \in DOMAIN d \cup keys |->
                  IF k \in keys
                  THEN (CHOOSE kv \in params.kwargs : kv[1] = k)[2]
                  ELSE d[k]]
       ELSE [k \in DOMAIN d \cup {"Distortion params"} |->
               IF k = "Distortion params" THEN params ELSE d[k]]

\* mutant of append_results: the append is outside the output loop, so
\* only the last entry of res['p'] gets a row
append_results_last(frame, slf, r, mdl, s, i_target, params, kwargs) ==
    LET d == RowBase(slf, r, mdl, s, i_target, params)
        names == SetToSeq(DOMAIN r.p)
        row(nm) == [k \in DOMAIN d \cup {"Output", "Value"} |->
                      IF k = "Output" THEN nm
                      ELSE IF k = "Value" THEN r.p[nm] ELSE d[k]]
    IN IF names = <<>> THEN frame
       ELSE Append(frame, row(names[Len(names)]))

\* the rows appended: one per entry of res['p']; kwargs is accepted and
\* not used
append_results(frame, slf, r, mdl, s, i_target, params, kwargs) ==
    LET d == RowBase(slf, r, mdl, s, i_target, params)
        names == SetToSeq(DOMAIN r.p)
        row(nm) == [k \in DOMAIN d \cup {"Output", "Value"} |->
                      IF k = "Output" THEN nm
                      ELSE IF k = "Value" THEN r.p[nm] ELSE d[k]]
    IN frame \o [j \in 1..Len(names) |-> row(names[j])]

-----------------------------------------------------------------------------
(* AdaptiveExperiment.run *)

\* the product the for loop runs over:
\* enumerate(targets) x dist_params x zip(models, pred_keys_and_thresholds)
Groups(slf, tgts) ==
    LET nP == Len(slf.dist_params)
        nM == Min(Len(slf.models), Len(slf.pred_keys_and_thresholds))
    IN [g \in 1..(Len(tgts) * nP * nM) |->
          LET z == g - 1
          IN [i_target |-> z \div (nP * nM),
              params |-> slf.dist_params[((z \div nM) % nP) + 1],
              model |-> slf.models[(z % nM) + 1],
              pred_key |-> slf.pred_keys_and_thresholds[(z % nM) + 1][1],
              threshold |-> slf.pred_keys_and_thresholds[(z % nM) + 1][2]]]

Group == Groups(self, targets)[ii + 1]

LastStep == Len(self.step_sizes) - 1

\* mutant of WhileCond: strict comparison
WhileCond_strict(tr, n) == tr < n

\* the while condition
WhileCond(tr, n) == tr <= n

\* mutant of HistoryEntry: the SNR logged after the step update
HistoryEntry_after(s, pred, new_snr) == <<new_snr, pred>>

\* the entry appended to all_res in an iteration
HistoryEntry(s, pred, new_snr) == <<s, pred>>

\* mutant of NextSnr: the SNR is never increased
NextSnr_down(s, pred, thr, steps, i) == s - steps[i + 1]

\* snr after the iteration's step
NextSnr(s, pred, thr, steps, i) ==
    IF pred >= thr THEN s - steps[i + 1] ELSE s + steps[i + 1]

\* last_reversal_sign after the iteration
NextSign(sign, pred, thr) ==
    IF pred >= thr THEN (IF sign > 0 THEN -1 ELSE sign)
    ELSE (IF sign < 0 THEN 1 ELSE sign)

\* mutant of NextIStep: the step also advances on an upward reversal
NextIStep_both(i, sign, pred, thr, last, change_step_on) ==
    IF (pred >= thr /\ sign > 0) \/ (pred < thr /\ sign < 0)
    THEN Min(i + 1, last) ELSE i

\* i_step after the iteration; change_step_on is not consulted
NextIStep(i, sign, pred, thr, last, change_step_on) ==
    IF pred >= thr /\ sign > 0 THEN Min(i + 1, last) ELSE i

\* mutant of NextTestReversals: upward reversals are not counted
NextTestReversals_down(tr, sign, pred, thr, new_i, last) ==
    IF pred >= thr /\ sign > 0 /\ new_i = last THEN tr + 1 ELSE tr

\* mutant of NextTestReversals: every upward move at the last step size
\* counts, reversal or not
NextTestReversals_everyup(tr, sign, pred, thr, new_i, last) ==
    IF pred >= thr
    THEN (IF sign > 0 /\ new_i = last THEN tr + 1 ELSE tr)
    ELSE (IF new_i = last THEN tr + 1 ELSE tr)

\* test_reversals after the iteration; new_i is i_step after the iteration
NextTestReversals(tr, sign, pred, thr, new_i, last) ==
    IF pred >= thr
    THEN (IF sign > 0 /\ new_i = last THEN tr + 1 ELSE tr)
    ELSE (IF sign < 0 /\ new_i = last THEN tr + 1 ELSE tr)

\* total_reversals after the iteration
NextTotalReversals(tot, sign, pred, thr) == tot + 1

\* the SRT derived after the loop
Srt(hist, n) == Mean([k \in 1..Len(LastN(hist, n)) |-> LastN(hist, n)[k][1]])

\* the keyword arguments run passes to append_results
RunKwargs(s, tot) == [SRT |-> s, Reversals |-> tot]

\* run up to the for loop: seed, load the targets
RunStart ==
    /\ pc = "start"
    /\ np_random' = RngSeed(self.seed)
    /\ targets' = LoadFiles(self.n)
    /\ df' = <<>>
    /\ ii' = 0
    /\ pc' = "for"
    /\ UNCHANGED <<self, target, masker, test_reversals, total_reversals,
                   snr, last_reversal_sign, i_step, all_res, res, srt>>
    /\ UNCHANGED <<runVars, writeVars, utilVars>>

\* the head of the for loop and the body up to the while loop
ForNext ==
    /\ pc = "for"
    /\ IF ii < Len(Groups(self, targets))
       THEN LET draw == RngDraw(np_random)
            IN /\ target' = targets[Group.i_target + 1]
               /\ masker' = Ssn(targets[Group.i_target + 1], draw.value)
               /\ np_random' = draw.next
               /\ test_reversals' = 0
               /\ total_reversals' = 0
               /\ snr' = self.start_snr
               /\ last_reversal_sign' = -1
               /\ i_step' = 0
               /\ all_res' = <<>>
               /\ pc' = "while"
       ELSE /\ pc' = "done"
            /\ UNCHANGED <<np_random, target, masker, test_reversals,
                           total_reversals, snr, last_reversal_sign, i_step,
                           all_res>>
    /\ UNCHANGED <<self, targets, ii, res, srt, df>>
    /\ UNCHANGED <<runVars, writeVars, utilVars>>

\* one iteration of the while loop
WhileStep ==
    /\ pc = "while"
    /\ WhileCond(test_reversals, self.n_test_reversals)
    /\ Abs(snr) <= MaxSnr
    /\ LET pre == preprocessing(self, target, masker, snr, Group.params)
           r == prediction(Group.model, pre[1], pre[2], pre[3], Len(all_res))
           pred == r.p[Group.pred_key]
           thr == Group.threshold
           new_snr == NextSnr(snr, pred, thr, self.step_sizes, i_step)
           new_i == NextIStep(i_step, last_reversal_sign, pred, thr, LastStep,
                              self.change_step_on)
       IN /\ target' = pre[1]
          /\ masker' = pre[3]
          /\ res' = r
          /\ all_res' = Append(all_res, HistoryEntry(snr, pred, new_snr))
          /\ snr' = new_snr
          /\ last_reversal_sign' = NextSign(last_reversal_sign, pred, thr)
          /\ i_step' = new_i
          /\ test_reversals' = NextTestReversals(test_reversals,
                                   last_reversal_sign, pred, thr, new_i,
                                   LastStep)
          /\ total_reversals' = NextTotalReversals(total_reversals,
                                    last_reversal_sign, pred, thr)
    /\ UNCHANGED <<self, np_random, pc, targets, ii, srt, df>>
    /\ UNCHANGED <<runVars, writeVars, utilVars>>

\* the while loop's exit and the rest of the for body
WhileExit ==
    /\ pc = "while"
    /\ ~WhileCond(test_reversals, self.n_test_reversals)
    /\ LET s == Srt(all_res, self.n_test_reversals)
       IN /\ srt' = s
          /\ df' = append_results(df, self, res, Group.model, snr,
                                  Group.i_target, Group.params,
                                  RunKwargs(s, total_reversals))
    /\ ii' = ii + 1
    /\ pc' = "for"
    /\ UNCHANGED <<self, np_random, targets, target, masker, test_reversals,
                   total_reversals, snr, last_reversal_sign, i_step, all_res,
                   res>>
    /\ UNCHANGED <<runVars, writeVars, utilVars>>

-----------------------------------------------------------------------------
(* The AdaptiveExperiment objects tried *)

StepSchedules == {<<1>>, <<2, 1>>, <<4, 2, 1>>}

StartSnrs == {-3, 0, 2}

Threshold == [key |-> "snr_env", value |-> 1]

Selves ==
    {[models |-> <<m>>,
      pred_keys_and_thresholds |-> <<<<Threshold.key, Threshold.value>>>>,
      start_snr |-> s0,
      step_sizes |-> st,
      n_test_reversals |-> ntr,
      change_step_on |-> cso,
      dist_params |-> <<dp>>,
      fixed_level |-> 65,
      fixed_target |-> TRUE,
      adjust_levels_bef_proc |-> FALSE,
      material |-> "Material",
      seed |-> 0,
      n |-> n] :
        m \in Models, s0 \in StartSnrs, st \in StepSchedules,
        ntr \in 0..MaxTestReversals, cso \in {-1, 1},
        dp \in {ParamsDict}, n \in 1..MaxTargets}

NoSignal == [id |-> 0, len |-> 0, noise |-> 0, ndist |-> 0, nlvl |-> 0,
             lvl |-> 0]

NoRes == [p |-> [name \in {"snr_env", "aux"} |-> 0]]

\* no file, no outcome
NoFile == [written |-> FALSE]
NoOutcome == [kind |-> "pending"]

\* the variables of the writing call, when no call is made
WriteIdle ==
    /\ wxp = <<>>
    /\ wpc = "idle"
    /\ wdf = <<>>
    /\ io = <<>>
    /\ files = <<>>
    /\ exc = "none"
    /\ logged = 0
    /\ wret = NoOutcome

\* the variables of the function call, when no call is made
UtilIdle ==
    /\ fn = "none"
    /\ fn_in = <<>>
    /\ fn_out = NoOutcome

\* the variables of the two Experiment.run calls, when no call is made
RunIdle ==
    /\ xp = <<>>
    /\ rng = <<>>
    /\ run_no = 0
    /\ rpc = "idle"
    /\ rtargets = <<>>
    /\ i_cond = 0
    /\ partial = <<>>
    /\ finished = {}
    /\ dfs = <<>>

Init ==
    /\ self \in Selves
    /\ np_random \in RngStates
    /\ pc = "start"
    /\ targets = <<>>
    /\ ii = 0
    /\ target = NoSignal
    /\ masker = NoSignal
    /\ test_reversals = 0
    /\ total_reversals = 0
    /\ snr = 0
    /\ last_reversal_sign = -1
    /\ i_step = 0
    /\ all_res = <<>>
    /\ res = NoRes
    /\ srt = NoValue
    /\ df = <<>>
    /\ RunIdle
    /\ WriteIdle
    /\ UtilIdle

Next == RunStart \/ ForNext \/ WhileStep \/ WhileExit

Spec == Init /\ [][Next]_vars

FairSpec == Init /\ [][Next]_vars /\ WF_vars(Next)

-----------------------------------------------------------------------------
(* Experiment.run, called twice in a row with the same arguments on the    *)
(* same object; with parallel = True both calls use the same cluster.      *)
(* Process 0 is the caller, processes 1..NumEngines are the engines.       *)

Engines == 1..NumEngines

\* product(enumerate(targets), dist_params, snrs, models) of _single_run
SingleConditions(x, tgts) ==
    LET nP == Len(x.dist_params)
        nS == Len(x.snrs)
        nM == Len(x.models)
    IN [c \in 1..(Len(tgts) * nP * nS * nM) |->
          LET z == c - 1
          IN [i_target |-> z \div (nP * nS * nM),
              params |-> x.dist_params[((z \div (nS * nM)) % nP) + 1],
              snr |-> x.snrs[((z \div nM) % nS) + 1],
              model |-> x.models[(z % nM) + 1]]]

\* product(enumerate(targets), snrs, models, dist_params) of _parallel_run
ParallelConditions(x, tgts) ==
    LET nP == Len(x.dist_params)
        nS == Len(x.snrs)
        nM == Len(x.models)
    IN [c \in 1..(Len(tgts) * nS * nM * nP) |->
          LET z == c - 1
          IN [i_target |-> z \div (nS * nM * nP),
              snr |-> x.snrs[((z \div (nM * nP)) % nS) + 1],
              model |-> x.models[((z \div nP) % nM) + 1],
              params |-> x.dist_params[(z % nP) + 1]]]

\* the body shared by _single_run's loop and _predict: the masker is drawn
\* from the generator of the process that evaluates the condition
Evaluate(x, tgts, cond, frame, state) ==
    LET draw == RngDraw(state)
        tgt == tgts[cond.i_target + 1]
        msk == Ssn(tgt, draw.value)
        pre == preprocessing(x, tgt, msk, cond.snr, cond.params)
        r == prediction(cond.model, pre[1], pre[2], pre[3], 0)
    IN [df |-> append_results(frame, x, r, cond.model, cond.snr,
                              cond.i_target, cond.params, <<>>),
        next |-> draw.next]

\* all_engines.map: the conditions of engine e, a contiguous block
Chunk(n, e) ==
    LET q == n \div NumEngines
        r == n % NumEngines
        first == (e - 1) * q + Min(e - 1, r) + 1
        size == q + (IF e <= r THEN 1 ELSE 0)
    IN first..(first + size - 1)

\* the engines lview.apply(np.random.seed, seed) may run on
SeedTargets == Engines

RECURSIVE Concat(_)
Concat(tables) == IF tables = <<>> THEN <<>>
                  ELSE Head(tables) \o Concat(Tail(tables))

\* run returns df (write is off): the next call starts, or both are done
RunReturn(table) ==
    /\ dfs' = [dfs EXCEPT ![run_no] = table]
    /\ IF run_no < 2
       THEN run_no' = run_no + 1 /\ rpc' = "start"
       ELSE run_no' = run_no /\ rpc' = "done"

\* run with parallel = False, up to the loop of _single_run
SingleStart ==
    /\ rpc = "start"
    /\ ~xp.parallel
    /\ rng' = [rng EXCEPT ![0] = RngSeed(xp.seed)]
    /\ rtargets' = LoadFiles(xp.n)
    /\ dfs' = [dfs EXCEPT ![run_no] = <<>>]
    /\ i_cond' = 0
    /\ rpc' = "single"
    /\ UNCHANGED <<xp, run_no, partial, finished>>
    /\ UNCHANGED <<stairVars, writeVars, utilVars>>

\* one iteration of the loop of _single_run, or its end
SingleNext ==
    /\ rpc = "single"
    /\ IF i_cond < Len(SingleConditions(xp, rtargets))
       THEN LET e == Evaluate(xp, rtargets,
                              SingleConditions(xp, rtargets)[i_cond + 1],
                              dfs[run_no], rng[0])
            IN /\ dfs' = [dfs EXCEPT ![run_no] = e.df]
               /\ rng' = [rng EXCEPT ![0] = e.next]
               /\ i_cond' = i_cond + 1
               /\ UNCHANGED <<run_no, rpc>>
       ELSE /\ RunReturn(dfs[run_no])
            /\ UNCHANGED <<rng, i_cond>>
    /\ UNCHANGED <<xp, rtargets, partial, finished>>
    /\ UNCHANGED <<stairVars, writeVars, utilVars>>

\* run with parallel = True, up to all_engines.map: the seeding call goes
\* to one engine, chosen by the load-balanced view
ParallelStart ==
    /\ rpc = "start"
    /\ xp.parallel
    /\ \E e \in SeedTargets : rng' = [rng EXCEPT ![e] = RngSeed(xp.seed)]
    /\ rtargets' = LoadFiles(xp.n)
    /\ partial' = [c \in 1..Len(ParallelConditions(xp, LoadFiles(xp.n)))
                     |-> <<>>]
    /\ finished' = {}
    /\ rpc' = "map"
    /\ UNCHANGED <<xp, run_no, i_cond, dfs>>
    /\ UNCHANGED <<stairVars, writeVars, utilVars>>

\* engine e evaluates the next condition of its block (_predict)
EngineEval(e) ==
    /\ rpc = "map"
    /\ LET conds == ParallelConditions(xp, rtargets)
           todo == Chunk(Len(conds), e) \ finished
       IN /\ todo # {}
          /\ LET c == CHOOSE c \in todo : \A d \in todo : c <= d
                 r == Evaluate(xp, rtargets, conds[c], <<>>, rng[e])
             IN /\ partial' = [partial EXCEPT ![c] = r.df]
                /\ finished' = finished \cup {c}
                /\ rng' = [rng EXCEPT ![e] = r.next]
    /\ UNCHANGED <<xp, run_no, rpc, rtargets, i_cond, dfs>>
    /\ UNCHANGED <<stairVars, writeVars, utilVars>>

\* all results are in: _parallel_run appends them in order, run returns
ParallelCollect ==
    /\ rpc = "map"
    /\ finished = DOMAIN partial
    /\ RunReturn(Concat(partial))
    /\ UNCHANGED <<xp, rng, rtargets, i_cond, partial, finished>>
    /\ UNCHANGED <<stairVars, writeVars, utilVars>>

\* the lists of models tried
ModelLists == {<<m>> : m \in LinearModels}
              \cup {<<SingleModel, TripleModel>>, <<EmptyModel, SingleModel>>}

Experiments ==
    {[models |-> ms,
      snrs |-> sn,
      dist_params |-> <<ParamsNone>>,
      fixed_level |-> 65,
      fixed_target |-> TRUE,
      adjust_levels_bef_proc |-> FALSE,
      material |-> "Material",
      write |-> FALSE,
      seed |-> sd,
      n |-> n,
      parallel |-> par] :
        ms \in ModelLists, sn \in {<<0>>, <<0, 3>>}, sd \in {0, 1},
        n \in 1..MaxTargets, par \in BOOLEAN}

\* the variables of AdaptiveExperiment.run, when it is not run
StairIdle ==
    /\ self = <<>>
    /\ np_random = 0
    /\ pc = "idle"
    /\ targets = <<>>
    /\ ii = 0
    /\ target = NoSignal
    /\ masker = NoSignal
    /\ test_reversals = 0
    /\ total_reversals = 0
    /\ snr = 0
    /\ last_reversal_sign = -1
    /\ i_step = 0
    /\ all_res = <<>>
    /\ res = NoRes
    /\ srt = NoValue
    /\ df = <<>>

\* before the first call the generators hold whatever state they were
\* left in; only those of the processes that evaluate conditions matter
RunInit ==
    /\ xp \in Experiments
    /\ rng \in [{0} \cup Engines -> RngStates]
    /\ IF xp.parallel THEN rng[0] = 0 ELSE \A e \in Engines : rng[e] = 0
    /\ run_no = 1
    /\ rpc = "start"
    /\ rtargets = <<>>
    /\ i_cond = 0
    /\ partial = <<>>
    /\ finished = {}
    /\ dfs = <<<<>>, <<>>>>
    /\ StairIdle
    /\ WriteIdle
    /\ UtilIdle

RunNext ==
    \/ SingleStart
    \/ SingleNext
    \/ ParallelStart
    \/ \E e \in Engines : EngineEval(e)
    \/ ParallelCollect

RunSpec == RunInit /\ [][RunNext]_vars

-----------------------------------------------------------------------------
(* Properties of the staircase *)

\* a step that is one iteration of the while loop
WhileIter == pc = "while" /\ pc' = "while"

\* the iteration changed the direction
Flip == last_reversal_sign' # last_reversal_sign
DownFlip == last_reversal_sign > 0 /\ last_reversal_sign' < 0
UpFlip == last_reversal_sign < 0 /\ last_reversal_sign' > 0

\* a staircase has been run to its end and its state is still in place
Exited == pc \in {"for", "done"} /\ ii >= 1

\* C1: while test_reversals <= n_test_reversals every step of the loop is
\* another iteration; the first state with test_reversals > n_test_reversals
\* leaves the loop; a step adds at most one test reversal, so the loop is
\* left with test_reversals = n_test_reversals + 1.
C1_LoopExit ==
    [][pc = "while" =>
         /\ test_reversals <= self.n_test_reversals =>
              /\ pc' = "while"
              /\ Len(all_res') = Len(all_res) + 1
              /\ test_reversals' \in {test_reversals, test_reversals + 1}
         /\ test_reversals > self.n_test_reversals =>
              /\ pc' = "for"
              /\ Len(df') > Len(df)
              /\ test_reversals = self.n_test_reversals + 1]_vars

C1_Witness ==
    /\ Exited
    /\ self.n_test_reversals = 2
    /\ test_reversals = 3
    /\ Len(all_res) > 3

\* C2: with n_test_reversals >= 1 the SRT of a finished staircase is the
\* mean of the SNRs of exactly the last n_test_reversals history entries,
\* the history has at least that many entries, and every entry holds the
\* SNR the model was evaluated at (the value before the step update).
C2_SrtIsMeanOfLastN ==
    /\ [](Exited /\ self.n_test_reversals >= 1 =>
            LET n == self.n_test_reversals
                L == Len(all_res)
            IN /\ L >= n
               /\ srt.den = n
               /\ srt.num = SumSeq([k \in 1..n |-> all_res[L - n + k][1]]))
    /\ [][WhileIter =>
            /\ all_res'[Len(all_res')][1] = snr
            /\ SubSeq(all_res', 1, Len(all_res)) = all_res]_vars

C2_Witness ==
    /\ Exited
    /\ self.n_test_reversals = 2
    /\ Len(all_res) > 2
    /\ srt.den = 2
    /\ all_res[Len(all_res)][1] # all_res[Len(all_res) - 1][1]
    /\ snr # all_res[Len(all_res)][1]

\* the direction of the move made in the k-th iteration
MoveSign(hist, thr, k) == IF hist[k][2] >= thr THEN -1 ELSE 1

\* the number of iterations of hist in which the direction changed
FlipCount(hist, thr) ==
    Cardinality({k \in 1..Len(hist) :
        MoveSign(hist, thr, k) #
            (IF k = 1 THEN -1 ELSE MoveSign(hist, thr, k - 1))})

\* C3: the total-reversal counter equals the number of direction flips
\* since the start of the staircase.
C3_TotalReversalsCountFlips ==
    pc = "while" => total_reversals = FlipCount(all_res, Group.threshold)

\* C4 as claimed: the step index advances (capped) exactly when the
\* direction flips, in either direction.
C4_StepAdvancesOnEveryFlip ==
    [][WhileIter =>
         i_step' = IF Flip THEN Min(i_step + 1, LastStep) ELSE i_step]_vars

\* C4 as amended: the step index advances by one (capped at the last index)
\* exactly when the direction flips from ascending to descending; on a flip
\* from descending to ascending and without a flip it is unchanged.
C4_StepAdvancesOnDownFlip ==
    [][WhileIter =>
         /\ DownFlip <=> (all_res'[Len(all_res')][2] >= Group.threshold
                          /\ last_reversal_sign > 0)
         /\ i_step' = IF DownFlip THEN Min(i_step + 1, LastStep)
                      ELSE i_step]_vars

C4_Witness ==
    /\ pc = "while"
    /\ LastStep = 2
    /\ i_step = 1
    /\ last_reversal_sign = 1

\* C5: an iteration adds one test reversal if and only if it flips the
\* direction and the step index after the iteration is the last index;
\* with a schedule of length 1 every flip is a test reversal.
C5_TestReversalIffFlipAtLastStep ==
    [][WhileIter =>
         /\ test_reversals' =
              IF Flip /\ i_step' = LastStep THEN test_reversals + 1
              ELSE test_reversals
         /\ (Len(self.step_sizes) = 1 /\ Flip) =>
              test_reversals' = test_reversals + 1]_vars

C5_Witness ==
    /\ pc = "while"
    /\ Len(self.step_sizes) = 1
    /\ Len(all_res) = 1
    /\ last_reversal_sign = 1
    /\ test_reversals = 1

\* the model's output is a monotonic function of the SNR crossing the
\* threshold
Monotonic == self.models[1].kind = "linear"

\* C6: with a model whose output is a monotonic function of the SNR that
\* crosses the threshold, the run terminates.
C6_MonotonicTerminates == Monotonic => <>(pc = "done")

C6_Witness ==
    /\ pc = "done"
    /\ Monotonic
    /\ self.n_test_reversals = 2
    /\ Len(self.step_sizes) = 3
    /\ Len(df) > 0

\* C7: with a monotonic model of crossing c the SRT of a finished staircase
\* is within the last step size of c.
C7_SrtWithinOneStep ==
    (Exited /\ Monotonic /\ self.n_test_reversals >= 1) =>
        LET c == Crossing(self.models[1], Groups(self, targets)[ii].threshold)
            s == self.step_sizes[Len(self.step_sizes)]
        IN Abs(srt.num - c * srt.den) <= s * srt.den

\* C8: every row the adaptive run appends carries the SRT and the total
\* reversal count of its staircase.
C8_RowsCarrySrt ==
    \A j \in 1..Len(df) :
        /\ "SRT" \in DOMAIN df[j]
        /\ "Reversals" \in DOMAIN df[j]
        /\ (Exited /\ df[j]["Sentence number"] = ii - 1) =>
              /\ df[j]["SRT"] = srt
              /\ df[j]["Reversals"] = total_reversals

\* C9: change_step_on selects the reversal on which the step index
\* advances: -1 downward reversals only, 1 upward reversals only.
C9_ChangeStepOnSelects ==
    [][WhileIter =>
         i_step' =
            IF \/ self.change_step_on = -1 /\ DownFlip
               \/ self.change_step_on = 1 /\ UpFlip
            THEN Min(i_step + 1, LastStep) ELSE i_step]_vars

-----------------------------------------------------------------------------
(* Properties of Experiment.run *)

Rows(table) == {table[j] : j \in 1..Len(table)}

BothDone == rpc = "done" /\ run_no = 2

\* C10: two sequential runs with the same inputs return tables with the
\* same rows in the same order; two distributed runs with the same inputs
\* return the same set of rows, whichever engine got the seeding call.
C10_RunDeterminism ==
    BothDone =>
        IF xp.parallel THEN Rows(dfs[1]) = Rows(dfs[2])
        ELSE dfs[1] = dfs[2]

----------------------------------------------------------------------------
(* Experiment.run with write = True: the table is built by _single_run and *)
(* handed to _write_results.  The file system answers each operation       *)
(* (isdir, mkdir, to_csv) with success or failure.                         *)

\* _single_run after its first c conditions
RECURSIVE single_run(_, _, _)
single_run(x, tgts, c) ==
    IF c = 0 THEN [df |-> <<>>, next |-> RngSeed(x.seed)]
    ELSE LET before == single_run(x, tgts, c - 1)
         IN Evaluate(x, tgts, SingleConditions(x, tgts)[c], before.df,
                     before.next)

\* df.drop(self._key_full_pred, axis=1)
Drop(table) ==
    [j \in DOMAIN table |->
       [k \in DOMAIN table[j] \ {"Full Prediction"} |-> table[j][k]]]

\* os.path.join(self.output_path, filename), os.path.join(os.getcwd(),
\* filename)
PrimaryPath == "output_path/filename"
AlternatePath == "cwd/filename"

\* the directory self.output_path exists when the CSV file is written
DirExists ==
    \E j \in DOMAIN io : io[j].op \in {"isdir", "mkdir"} /\ io[j].ok

\* df.drop(...).to_csv(path), answered by ok
ToCsv(path, ok) ==
    /\ io' = Append(io, [op |-> "to_csv", path |-> path, ok |-> ok,
                         data |-> Drop(wdf)])
    /\ files' = IF ok THEN [files EXCEPT ![path] =
                              [written |-> TRUE, data |-> Drop(wdf)]]
                ELSE files

\* run up to `if self.write:`; without write it returns the table
WRun ==
    /\ wpc = "start"
    /\ LET tgts == LoadFiles(wxp.n)
           table == single_run(wxp, tgts,
                               Len(SingleConditions(wxp, tgts))).df
       IN /\ wdf' = table
          /\ IF wxp.write
             THEN wpc' = "write" /\ wret' = wret
             ELSE wpc' = "returned"
                  /\ wret' = [kind |-> "value", df |-> table]
    /\ UNCHANGED <<wxp, io, files, exc, logged>>
    /\ UNCHANGED <<stairVars, runVars, utilVars>>

\* _write_results up to the primary write: the directory is created when it
\* is missing; os.mkdir fails with an OSError, which `except IOError`
\* catches or not depending on the interpreter
WMkdir ==
    /\ wpc = "write"
    /\ \E isdir \in BOOLEAN :
         IF isdir
         THEN /\ io' = Append(io, [op |-> "isdir", ok |-> TRUE])
              /\ wpc' = "primary"
              /\ UNCHANGED <<exc, logged, wret>>
         ELSE \E ok \in BOOLEAN, caught \in BOOLEAN :
                /\ io' = Append(io, [op |-> "mkdir", ok |-> ok])
                /\ IF ok
                   THEN /\ caught
                        /\ wpc' = "primary"
                        /\ UNCHANGED <<exc, logged, wret>>
                   ELSE IF caught
                   THEN /\ wpc' = "primary"
                        /\ logged' = logged + 2
                        /\ UNCHANGED <<exc, wret>>
                   ELSE /\ wpc' = "raised"
                        /\ exc' = "mkdir"
                        /\ wret' = [kind |-> "raised", error |-> "mkdir"]
                        /\ UNCHANGED logged
    /\ UNCHANGED <<wxp, wdf, files>>
    /\ UNCHANGED <<stairVars, runVars, utilVars>>

\* mutant of WPrimary: the except clause re-raises without a finally clause
WPrimary_nofinally ==
    /\ wpc = "primary"
    /\ \E ok \in (IF DirExists THEN BOOLEAN ELSE {FALSE}) :
         /\ ToCsv(PrimaryPath, ok)
         /\ IF ok
            THEN /\ wpc' = "returned"
                 /\ wret' = [kind |-> "value", df |-> wdf]
                 /\ UNCHANGED <<exc, logged>>
            ELSE /\ wpc' = "raised"
                 /\ exc' = "primary"
                 /\ logged' = logged + 1
                 /\ wret' = [kind |-> "raised", error |-> "primary"]
    /\ UNCHANGED <<wxp, wdf>>
    /\ UNCHANGED <<stairVars, runVars, utilVars>>

\* the primary write: on success _write_results returns and run returns df;
\* on an IOError the except clause logs and re-raises, which enters the
\* finally clause with the error pending
WPrimary ==
    /\ wpc = "primary"
    /\ \E ok \in (IF DirExists THEN BOOLEAN ELSE {FALSE}) :
         /\ ToCsv(PrimaryPath, ok)
         /\ IF ok
            THEN /\ wpc' = "returned"
                 /\ wret' = [kind |-> "value", df |-> wdf]
                 /\ UNCHANGED <<exc, logged>>
            ELSE /\ wpc' = "finally"
                 /\ exc' = "primary"
                 /\ logged' = logged + 1
                 /\ UNCHANGED wret
    /\ UNCHANGED <<wxp, wdf>>
    /\ UNCHANGED <<stairVars, runVars, utilVars>>

\* mutant of WFallback: a fallback write that succeeds clears the pending
\* error and run returns df
WFallback_swallow ==
    /\ wpc = "finally"
    /\ \E ok \in BOOLEAN :
         /\ ToCsv(AlternatePath, ok)
         /\ IF ok
            THEN /\ wpc' = "returned"
                 /\ exc' = "none"
                 /\ wret' = [kind |-> "value", df |-> wdf]
            ELSE /\ wpc' = "raised"
                 /\ exc' = exc
                 /\ wret' = [kind |-> "raised", error |-> exc]
    /\ UNCHANGED <<wxp, wdf, logged>>
    /\ UNCHANGED <<stairVars, runVars, utilVars>>

\* the finally clause: the fallback write, whose own failure is discarded
\* (`except: pass`); then the pending error leaves _write_results and run
WFallback ==
    /\ wpc = "finally"
    /\ \E ok \in BOOLEAN : ToCsv(AlternatePath, ok)
    /\ wpc' = "raised"
    /\ wret' = [kind |-> "raised", error |-> exc]
    /\ UNCHANGED <<wxp, wdf, exc, logged>>
    /\ UNCHANGED <<stairVars, runVars, utilVars>>

\* the experiments written: local runs, with and without write
WExperiments ==
    {[x EXCEPT !.write = w] : x \in {y \in Experiments : ~y.parallel},
                              w \in BOOLEAN}

WriteInit ==
    /\ wxp \in WExperiments
    /\ wpc = "start"
    /\ wdf = <<>>
    /\ io = <<>>
    /\ files = [path \in {PrimaryPath, AlternatePath} |-> NoFile]
    /\ exc = "none"
    /\ logged = 0
    /\ wret = NoOutcome
    /\ StairIdle
    /\ RunIdle
    /\ UtilIdle

WriteNext ==
    \/ WRun
    \/ WMkdir
    \/ WPrimary
    \/ WFallback

WriteSpec == WriteInit /\ [][WriteNext]_vars

----------------------------------------------------------------------------
(* Single calls of int2srt, make_same_length and setdbspl (general.py) and *)
(* of Experiment.pred_to_pc.  Signals are sequences of integer samples.    *)
(* An outcome is a returned value, None, or a raised exception.            *)

SeqsUpTo(S, lo, hi) == UNION {[1..k -> S] : k \in lo..hi}

\* a fraction with a positive denominator
Frac(num, den) == IF den < 0 THEN [num |-> -num, den |-> -den]
                  ELSE [num |-> num, den |-> den]

\* np.nonzero(np.diff(y >= srt))[0], as the set of (1-based) positions
DiffIdx(y, srt_) ==
    {j \in 1..(Len(y) - 1) : (y[j] >= srt_) # (y[j + 1] >= srt_)}

\* `not idx` for a numpy array: an empty array is false, an array of one
\* element has the truth value of the element, a longer one raises
NotIdx(idx) ==
    IF Cardinality(idx) >= 2 THEN "ValueError"
    ELSE IF idx = {} THEN "True"
    ELSE IF idx = {1} THEN "True" ELSE "False"

\* general.int2srt
int2srt(x, y, srt_) ==
    IF Len(x) # Len(y) THEN [kind |-> "error", error |-> "ValueError"]
    ELSE LET idx == DiffIdx(y, srt_)
             j == CHOOSE j \in idx : TRUE
         IN IF NotIdx(idx) = "ValueError"
            THEN [kind |-> "error", error |-> "ValueError"]
            ELSE IF NotIdx(idx) = "True" /\ y[1] = srt_
            THEN [kind |-> "value", v |-> Frac(x[1], 1)]
            ELSE IF Cardinality(idx) >= 1
            THEN [kind |-> "value",
                  v |-> Frac(x[j] * (y[j + 1] - y[j])
                               + (srt_ - y[j]) * (x[j + 1] - x[j]),
                             y[j + 1] - y[j])]
            ELSE [kind |-> "none"]

\* b zero-padded to n samples: c = np.zeros_like(a); c[:len(b)] += b
ZeroPad(b, n) == [j \in 1..n |-> IF j <= Len(b) THEN b[j] ELSE 0]

\* mutant of MakeSameLength: a shorter b is returned as it is
MakeSameLength_nopad(a, b, extend_first) ==
    IF Len(a) < Len(b)
    THEN IF extend_first
         THEN <<ZeroPad(a, Len(b)), b>>
         ELSE <<a, SubSeq(b, 1, Len(a))>>
    ELSE <<a, b>>

\* general.make_same_length on the samples of a and b
MakeSameLength(a, b, extend_first) ==
    IF Len(a) < Len(b)
    THEN IF extend_first
         THEN <<ZeroPad(a, Len(b)), b>>
         ELSE <<a, SubSeq(b, 1, Len(a))>>
    ELSE <<a, ZeroPad(b, Len(a))>>

\* len(x) * rms(x) ** 2: the sum of the squared samples
SumSquares(x) == SumSeq([j \in DOMAIN x |-> x[j] * x[j]])

\* general.setdbspl on the samples of x: x / rms(x) * 10 ** ((lvl - 100) /
\* 20).  The result is kept as the waveform and its level; numpy divides
\* 0 by 0 to NaN (with a warning), so a silent x gives NaN samples
SetDbSpl(x, lvl) ==
    IF SumSquares(x) = 0
    THEN [kind |-> "value", nan |-> TRUE, len |-> Len(x)]
    ELSE [kind |-> "value", nan |-> FALSE, len |-> Len(x), shape |-> x,
          lvl |-> lvl]

\* the conversion function given to pred_to_pc
Fc(v) == 2 * v + 1

NaN == [nan |-> TRUE]
Num(v) == [nan |-> FALSE, v |-> v]

\* the selectors of pred_to_pc: None, a model name, a list of names, a dict
\* from model name to output name
Selectors ==
    {[kind |-> "none"]}
    \cup {[kind |-> "string", name |-> nm] : nm \in {"", "A"}}
    \cup {[kind |-> "list", names |-> ns] : ns \in {{}, {"A"}, {"A", "B"}}}
    \cup {[kind |-> "dict", items |-> it] :
            it \in {{}, {<<"A", "p">>}, {<<"A", "p">>, <<"B", "q">>}}}

\* Python truth value of the selector
SelectorTruthy(sel) ==
    CASE sel.kind = "none" -> FALSE
      [] sel.kind = "string" -> sel.name # ""
      [] sel.kind = "list" -> sel.names # {}
      [] sel.kind = "dict" -> sel.items # {}

\* the rows a truthy selector addresses
Addressed(sel, row) ==
    CASE sel.kind = "list" -> row["Model"] \in sel.names
      [] sel.kind = "dict" -> <<row["Model"], row["Output"]>> \in sel.items
      [] OTHER -> row["Model"] = sel.name

\* Experiment.pred_to_pc with col = 'Value', out_name = 'Intelligibility'
pred_to_pc(table, sel) ==
    LET withcol == [j \in DOMAIN table |->
                      IF "Intelligibility" \in DOMAIN table[j] THEN table[j]
                      ELSE [k \in DOMAIN table[j] \cup {"Intelligibility"}
                              |-> IF k = "Intelligibility" THEN NaN
                                  ELSE table[j][k]]]
        convert(row) == [row EXCEPT !["Intelligibility"] =
                                        Num(Fc(row["Value"].v))]
    IN [j \in DOMAIN withcol |->
          IF SelectorTruthy(sel)
          THEN IF Addressed(sel, withcol[j]) THEN convert(withcol[j])
               ELSE withcol[j]
          ELSE convert(withcol[j])]

\* the arguments tried
Curves ==
    {[x |-> x, y |-> y, srt |-> 50] :
        x \in {[j \in 1..k |-> 3 * (j - 1)] : k \in 1..MaxPoints},
        y \in SeqsUpTo({0, 50, 100}, 1, MaxPoints)}

Signals == SeqsUpTo({0, 1}, 1, MaxSamples)

ResultRows(has_col) ==
    IF has_col
    THEN {[Model |-> m, Output |-> o, Value |-> Num(3),
           Intelligibility |-> Num(0)] : m \in {"A", "B"}, o \in {"p", "q"}}
    ELSE {[Model |-> m, Output |-> o, Value |-> Num(3)] :
            m \in {"A", "B"}, o \in {"p", "q"}}

CallInt2srt ==
    /\ fn = "int2srt"
    /\ fn_out = NoOutcome
    /\ fn_out' = int2srt(fn_in.x, fn_in.y, fn_in.srt)
    /\ UNCHANGED <<fn, fn_in>>
    /\ UNCHANGED <<stairVars, runVars, writeVars>>

CallMakeSameLength ==
    /\ fn = "make_same_length"
    /\ fn_out = NoOutcome
    /\ fn_out' = [kind |-> "value",
                  v |-> MakeSameLength(fn_in.a, fn_in.b, fn_in.extend_first)]
    /\ UNCHANGED <<fn, fn_in>>
    /\ UNCHANGED <<stairVars, runVars, writeVars>>

CallSetDbSpl ==
    /\ fn = "setdbspl"
    /\ fn_out = NoOutcome
    /\ fn_out' = SetDbSpl(fn_in.x, fn_in.lvl)
    /\ UNCHANGED <<fn, fn_in>>
    /\ UNCHANGED <<stairVars, runVars, writeVars>>

CallPredToPc ==
    /\ fn = "pred_to_pc"
    /\ fn_out = NoOutcome
    /\ fn_out' = [kind |-> "value", v |-> pred_to_pc(fn_in.df, fn_in.models)]
    /\ UNCHANGED <<fn, fn_in>>
    /\ UNCHANGED <<stairVars, runVars, writeVars>>

UtilInit ==
    /\ fn \in {"int2srt", "make_same_length", "setdbspl", "pred_to_pc"}
    /\ CASE fn = "int2srt" -> fn_in \in Curves
         [] fn = "make_same_length" ->
              fn_in \in [a : Signals, b : Signals, extend_first : BOOLEAN]
         [] fn = "setdbspl" -> fn_in \in [x : Signals, lvl : {60, 65}]
         [] fn = "pred_to_pc" ->
              \E has_col \in BOOLEAN :
                fn_in \in [df : SeqsUpTo(ResultRows(has_col), 0, MaxRows),
                           models : Selectors]
    /\ fn_out = NoOutcome
    /\ StairIdle
    /\ RunIdle
    /\ WriteIdle

UtilNext ==
    \/ CallInt2srt
    \/ CallMakeSameLength
    \/ CallSetDbSpl
    \/ CallPredToPc

UtilSpec == UtilInit /\ [][UtilNext]_vars

----------------------------------------------------------------------------
(* Claims C11 to C20 *)

\* the condition metadata of a row
Metadata(row) == [k \in DOMAIN row \ {"Output", "Value"} |-> row[k]]

\* the number of rows the first c conditions of _single_run yield
RECURSIVE RowsOfConditions(_, _)
RowsOfConditions(conds, c) ==
    IF c = 0 THEN 0
    ELSE Cardinality(OutputNames(conds[c].model))
         + RowsOfConditions(conds, c - 1)

\* C11: append_results on an output with k named entries appends exactly k
\* rows, one per output name, all with the condition's metadata and the full
\* output, and leaves the rows already in the table unchanged; in a
\* sequential run the table has the sum over the conditions of k rows.
C11_FlattenAppendsKRows ==
    /\ [][(rpc = "single" /\ i_cond' = i_cond + 1) =>
            LET cond == SingleConditions(xp, rtargets)[i_cond + 1]
                names == OutputNames(cond.model)
                old == dfs[run_no]
                new == dfs'[run_no]
                added == {new[j] : j \in (Len(old) + 1)..Len(new)}
            IN /\ Len(new) = Len(old) + Cardinality(names)
               /\ SubSeq(new, 1, Len(old)) = old
               /\ {row["Output"] : row \in added} = names
               /\ \A row \in added :
                    /\ row["Model"] = cond.model.name
                    /\ row["Material"] = xp.material
                    /\ row["Sentence number"] = cond.i_target
                    /\ row["SNR"] = cond.snr
                    /\ row["Distortion params"] = cond.params
                    /\ DOMAIN row["Full Prediction"].p = names
                    /\ row["Value"] = row["Full Prediction"].p[row["Output"]]
               /\ \A r1, r2 \in added : Metadata(r1) = Metadata(r2)]_vars
    /\ [](rpc = "single" =>
            Len(dfs[run_no]) =
                RowsOfConditions(SingleConditions(xp, rtargets), i_cond))

C11_Witness ==
    /\ BothDone
    /\ ~xp.parallel
    /\ xp.models = <<SingleModel, TripleModel>>
    /\ xp.n = 2
    /\ Len(xp.snrs) = 2
    /\ Len(dfs[2]) = 16

\* the answers the file system gave to the two writes
PrimaryFailed ==
    \E j \in DOMAIN io :
        io[j].op = "to_csv" /\ io[j].path = PrimaryPath /\ ~io[j].ok
FallbackTried ==
    \E j \in DOMAIN io : io[j].op = "to_csv" /\ io[j].path = AlternatePath
FallbackOk ==
    \E j \in DOMAIN io :
        io[j].op = "to_csv" /\ io[j].path = AlternatePath /\ io[j].ok
WTerminal == wpc \in {"returned", "raised"}

\* C12: whenever the primary CSV write fails, a write of the same table
\* without the full-prediction column to the current directory is attempted
\* before anything reaches the caller; if that write fails too, the caller
\* gets the primary write's error, never a normal return.
C12_FallbackBeforeError ==
    /\ (PrimaryFailed /\ ~FallbackTried) => (~WTerminal /\ wret = NoOutcome)
    /\ (PrimaryFailed /\ WTerminal) =>
          \E j, k \in DOMAIN io :
              /\ j < k
              /\ io[j].op = "to_csv" /\ io[j].path = PrimaryPath /\ ~io[j].ok
              /\ io[k].op = "to_csv" /\ io[k].path = AlternatePath
              /\ io[k].data = Drop(wdf)
    /\ (PrimaryFailed /\ WTerminal /\ ~FallbackOk) =>
          /\ wpc = "raised"
          /\ exc = "primary"
          /\ wret = [kind |-> "raised", error |-> "primary"]

C12_Witness ==
    /\ wpc = "raised"
    /\ PrimaryFailed
    /\ FallbackTried
    /\ ~FallbackOk
    /\ wdf # <<>>

\* C13 (as stated): the primary-write error reaches the caller only if the
\* fallback write fails too; with a successful fallback write run returns
\* the table.
C13_ErrorOnlyIfFallbackFails ==
    /\ (WTerminal /\ PrimaryFailed /\ FallbackOk) =>
          (wpc = "returned" /\ wret = [kind |-> "value", df |-> wdf])
    /\ (wret = [kind |-> "raised", error |-> "primary"]) => ~FallbackOk

\* C13 (amended): the primary-write error reaches the caller of run
\* whenever the primary write fails, whether the fallback write succeeds or
\* not; a successful fallback write only leaves the table in the current
\* directory; run returns the table exactly when the primary write did not
\* fail.
C13_ErrorWheneverPrimaryFails ==
    /\ (WTerminal /\ PrimaryFailed) =>
          /\ wpc = "raised"
          /\ exc = "primary"
          /\ wret = [kind |-> "raised", error |-> "primary"]
    /\ (WTerminal /\ FallbackOk) =>
          files[AlternatePath] = [written |-> TRUE, data |-> Drop(wdf)]
    /\ (wret = [kind |-> "raised", error |-> "primary"]) => PrimaryFailed
    /\ (wpc = "returned") =>
          (~PrimaryFailed /\ wret = [kind |-> "value", df |-> wdf])

C13_Witness ==
    /\ wpc = "raised"
    /\ PrimaryFailed
    /\ FallbackOk
    /\ wret = [kind |-> "raised", error |-> "primary"]
    /\ wdf # <<>>

\* the positions where y crosses the value, and the interpolated x there
CrossingAt(c, j) ==
    Frac(c.x[j] * (c.y[j + 1] - c.y[j])
           + (c.srt - c.y[j]) * (c.x[j + 1] - c.x[j]),
         c.y[j + 1] - c.y[j])
SameFrac(f, g) == f.num * g.den = g.num * f.den

\* C14: for x and y of equal length int2srt returns the interpolated x of
\* the first position where y crosses the value, also when y crosses it
\* several times; with no crossing it returns None, or x[0] when y[0] equals
\* the value.
C14_FirstCrossingReturned ==
    (fn = "int2srt" /\ fn_out # NoOutcome /\ Len(fn_in.x) = Len(fn_in.y)) =>
        LET idx == DiffIdx(fn_in.y, fn_in.srt)
            first == CHOOSE j \in idx : \A k \in idx : j <= k
        IN IF idx # {}
           THEN /\ fn_out.kind = "value"
                /\ SameFrac(fn_out.v, CrossingAt(fn_in, first))
           ELSE IF fn_in.y[1] = fn_in.srt
           THEN fn_out = [kind |-> "value", v |-> Frac(fn_in.x[1], 1)]
           ELSE fn_out = [kind |-> "none"]

\* C15: pred_to_pc converts only the rows its selector addresses (None: all
\* rows); every other row keeps its previous output-column value, NaN when
\* the column is new, for every selector including [] and {}.
C15_RowsOutsideSelectorUntouched ==
    (fn = "pred_to_pc" /\ fn_out # NoOutcome) =>
        LET sel == fn_in.models
            selected(row) ==
                sel.kind = "none" \/ Addressed(sel, row)
        IN \A j \in DOMAIN fn_in.df :
             LET before == fn_in.df[j]
                 after == fn_out.v[j]
             IN IF selected(before)
                THEN after["Intelligibility"] = Num(Fc(before["Value"].v))
                ELSE after["Intelligibility"] =
                        IF "Intelligibility" \in DOMAIN before
                        THEN before["Intelligibility"] ELSE NaN

\* C16 (as stated): alignment only truncates: a longer masker is cut to the
\* target's length, a shorter masker keeps its own samples and length.
C16_TruncationOnly ==
    (fn = "make_same_length" /\ fn_out # NoOutcome /\ ~fn_in.extend_first) =>
        /\ fn_out.v[1] = fn_in.a
        /\ fn_out.v[2] = IF Len(fn_in.b) > Len(fn_in.a)
                         THEN SubSeq(fn_in.b, 1, Len(fn_in.a))
                         ELSE fn_in.b

\* C16 (amended): alignment leaves the target as it is and makes the masker
\* exactly as long as the target: a longer masker is cut to the target's
\* length, a shorter masker is extended with zeros to the target's length.
C16_MaskerCutOrZeroPadded ==
    (fn = "make_same_length" /\ fn_out # NoOutcome /\ ~fn_in.extend_first) =>
        LET t == fn_in.a
            m == fn_in.b
            m2 == fn_out.v[2]
        IN /\ fn_out.v[1] = t
           /\ Len(m2) = Len(t)
           /\ \A j \in 1..Len(t) :
                m2[j] = IF j <= Len(m) THEN m[j] ELSE 0

C16_Witness ==
    /\ fn = "make_same_length"
    /\ ~fn_in.extend_first
    /\ fn_out # NoOutcome
    /\ Len(fn_in.b) < Len(fn_in.a)
    /\ Len(fn_out.v[2]) = Len(fn_in.a)
    /\ fn_in.b[1] = 1

\* C17: setdbspl on a signal whose RMS is zero ends in an error and returns
\* no scaled signal.
C17_SilenceIsAnError ==
    (fn = "setdbspl" /\ fn_out # NoOutcome /\ SumSquares(fn_in.x) = 0) =>
        fn_out.kind = "error"

\* models whose output never lets the staircase converge
AlwaysAbove ==
    LET m == self.models[1]
    IN /\ m.kind \in {"script", "sticky"}
       /\ \A j \in DOMAIN m.script : m.script[j] >= Threshold.value
BelowAfterFirstFlip ==
    LET m == self.models[1]
    IN \/ /\ m.kind = "script"
          /\ \A j \in DOMAIN m.script : m.script[j] < Threshold.value
       \/ /\ m.kind = "sticky"
          /\ \E k \in DOMAIN m.script :
               /\ \A j \in 1..(k - 1) : m.script[j] >= Threshold.value
               /\ \A j \in k..Len(m.script) : m.script[j] < Threshold.value

\* the staircase of the first group is still running
StillRunning ==
    /\ test_reversals <= self.n_test_reversals
    /\ ii = 0
    /\ pc \in {"start", "for", "while"}
    /\ df = <<>>

\* C18 (as stated): with an output at or above the threshold at every
\* evaluation, or below it at every evaluation after the first flip,
\* test_reversals never exceeds n_test_reversals and the loop is never left.
C18_NonConvergenceNeverExits ==
    (AlwaysAbove \/ BelowAfterFirstFlip) => StillRunning

\* the non-converging cases in which the first flip cannot end the loop
NonConverging ==
    \/ AlwaysAbove
    \/ /\ BelowAfterFirstFlip
       /\ (self.n_test_reversals >= 1 \/ Len(self.step_sizes) > 1)

\* C18 (amended): with an output at or above the threshold at every
\* evaluation, or below it at every evaluation after the first flip while
\* n_test_reversals >= 1 or the schedule has more than one step size,
\* test_reversals never exceeds n_test_reversals, the loop is never left and
\* no rows are appended; every iteration moves the SNR by the current step
\* size, down while the output is above and up from the first flip on, and
\* the step size never changes.
C18_NonConvergenceRunsOn ==
    /\ [](NonConverging => StillRunning)
    /\ [][(NonConverging /\ WhileIter) =>
            /\ i_step' = i_step
            /\ (last_reversal_sign > 0 => last_reversal_sign' > 0)
            /\ snr' = IF last_reversal_sign' > 0
                      THEN snr + self.step_sizes[i_step + 1]
                      ELSE snr - self.step_sizes[i_step + 1]
            /\ AlwaysAbove => last_reversal_sign' < 0]_vars

C18_Witness ==
    /\ pc = "while"
    /\ self.models[1].kind = "sticky"
    /\ self.n_test_reversals = 1
    /\ self.step_sizes = <<1>>
    /\ test_reversals = 1
    /\ last_reversal_sign > 0
    /\ Len(all_res) >= 6
    /\ snr > self.start_snr

\* C19: at every iteration the signals passed to preprocessing are the ones
\* the staircase started with, so the model never sees a signal that was
\* distorted or level-adjusted more than once.
C19_PreprocessingFromOriginals ==
    (pc = "while" /\ WhileCond(test_reversals, self.n_test_reversals)) =>
        /\ target = targets[Group.i_target + 1]
        /\ masker.ndist = 0
        /\ masker.nlvl = 0

\* C20: the SNR of the rows appended for a staircase is the SNR of the last
\* history entry, the one at which the stored model output was produced.
C20_RowSnrIsLastEvaluatedSnr ==
    (pc = "for" /\ ii >= 1 /\ Len(df) >= 1) =>
        df[Len(df)]["SNR"] = all_res[Len(all_res)][1]

====
